---- MODULE Spec2Model ----
(***************************************************************************)
(* AVM1 SharedObject (core/src/avm1/globals/shared_object.rs): the         *)
(* name -> handle cache, the value-tree <-> JSON codec and the             *)
(* getLocal / flush / clear lifecycle over the storage backend.            *)
(***************************************************************************)
EXTENDS Integers, Sequences, FiniteSets, TLC

(* ------------------------------ bounds -------------------------------- *)

\* Slots of the object heap (handles, data objects, nested objects, functions).
MaxObjs == 5

\* Properties held by all live data objects together.
MaxProps == 3

\* Store names and property keys the scripts use.
Names == {"prefs", "x"}
Keys == {"a", "b"}

ObjIds == 1..MaxObjs

\* Native stack frames available to recursive_serialize: more than any acyclic
\* graph of MaxObjs objects needs.
StackLimit == MaxObjs + 1

(* --------------------------- avm1::Value ------------------------------ *)

\* f64, by FpCategory, sign and (integer) magnitude.
F64(cat, neg, mag) == [cat |-> cat, neg |-> neg, mag |-> mag]
NAN == F64("Nan", FALSE, 0)
INFINITY == F64("Infinite", FALSE, 0)
Finite(n) == F64(IF n = 0 THEN "Zero" ELSE "Normal", n < 0, IF n < 0 THEN -n ELSE n)

Undefined == [t |-> "Undefined"]
Null == [t |-> "Null"]
Bool(b) == [t |-> "Bool", b |-> b]
Number(f) == [t |-> "Number", f |-> f]
String(s) == [t |-> "String", s |-> s]
Object(o) == [t |-> "Object", o |-> o]

(* ----------------------------- the heap ------------------------------- *)
\* heap[i].kind: "free", "shared" (a SharedObject handle), "object" (a bare
\* object) or "function".  props is the object's own properties in the order
\* get_keys enumerates them.

NoObj == [kind |-> "free", name |-> "", props |-> <<>>]

\* create_bare_object / constructor.construct: the object takes a free slot.
Alloc(h) == CHOOSE i \in ObjIds : h[i].kind = "free" /\ \A j \in 1..(i - 1) : h[j].kind # "free"
FreeSlots(h) == Cardinality({i \in ObjIds : h[i].kind = "free"})

get_keys(h, obj) == [i \in 1..Len(h[obj].props) |-> h[obj].props[i][1]]

HasKey(props, k) == \E i \in 1..Len(props) : props[i][1] = k

\* Property read: a missing property reads as Undefined.
get(h, obj, k) ==
    IF HasKey(h[obj].props, k)
    THEN h[obj].props[CHOOSE i \in 1..Len(h[obj].props) : h[obj].props[i][1] = k][2]
    ELSE Undefined

\* define_value(.., key, value, EnumSet::empty()): an existing property is
\* overwritten in place, a new one is appended.
PutProp(props, k, v) ==
    IF HasKey(props, k)
    THEN [i \in 1..Len(props) |-> IF props[i][1] = k THEN <<k, v>> ELSE props[i]]
    ELSE Append(props, <<k, v>>)

define_value(h, obj, k, v) == [h EXCEPT ![obj].props = PutProp(@, k, v)]

\* data.delete(activation, k)
DelProp(props, k) == SelectSeq(props, LAMBDA p : p[1] # k)

(* --------------------------- json::JsonValue -------------------------- *)

JsonNull == [j |-> "Null"]
JsonShort(s) == [j |-> "Short", s |-> s]
JsonString(s) == [j |-> "String", s |-> s]
JsonNumber(n) == [j |-> "Number", n |-> n]
JsonBoolean(b) == [j |-> "Boolean", b |-> b]
JsonObject(entries) == [j |-> "Object", o |-> entries]
JsonArray(items) == [j |-> "Array", a |-> items]

\* JsonValue::new_object()
new_object == JsonObject(<<>>)

\* json::number::Number: category, decimal mantissa and exponent.
JNumber(category, mantissa, exponent) ==
    [category |-> category, mantissa |-> mantissa, exponent |-> exponent]
NumberNAN == JNumber("NaN", 0, 0)

RECURSIVE Pow10(_)
Pow10(e) == IF e <= 0 THEN 1 ELSE 10 * Pow10(e - 1)

\* The shortest decimal digits of a magnitude: trailing zeros go to the exponent.
RECURSIVE ShortestDecimal(_, _)
ShortestDecimal(m, e) ==
    IF m # 0 /\ m % 10 = 0 THEN ShortestDecimal(m \div 10, e + 1) ELSE <<m, e>>

\* `f.into()`: f64 -> JsonValue::Number.  The json crate has no number for NaN
\* or the infinities: both become its NaN number.
NumberFromF64(f) ==
    IF f.cat \in {"Infinite", "Nan"}
    THEN NumberNAN
    ELSE LET d == ShortestDecimal(f.mag, 0)
         IN JNumber(IF f.neg THEN "Negative" ELSE "Positive", d[1], d[2])

\* `f.clone().into()`: JsonValue::Number -> f64.
F64FromNumber(n) ==
    IF n.category = "NaN"
    THEN NAN
    ELSE LET mag == n.mantissa * Pow10(n.exponent)
         IN F64(IF mag = 0 THEN "Zero" ELSE "Normal", n.category = "Negative", mag)

\* An assignment that puts a new entry in front of the others.
IndexAssignPrepends(json_obj, k, v) ==
    IF json_obj.j # "Object"
    THEN JsonObject(<<<<k, v>>>>)
    ELSE JsonObject(<<<<k, v>>>> \o json_obj.o)

\* `json_obj[k] = v`: an entry with that key is replaced, a new one is appended.
IndexAssign(json_obj, k, v) ==
    IF json_obj.j # "Object"
    THEN JsonObject(<<<<k, v>>>>)
    ELSE JsonObject(PutProp(json_obj.o, k, v))

\* json_obj.entries(): the entries of an object, nothing for any other value.
entries(json_obj) == IF json_obj.j = "Object" THEN json_obj.o ELSE <<>>

(* ------------------- recursive_serialize (encode) --------------------- *)

\* A check that takes no object for a function.
NeverFunction(h, o) == FALSE

\* o.is_instance_of(activation, o, function).unwrap_or_default()
is_instance_of_function(h, o) == h[o].kind = "function"

\* What recursive_serialize yields when the native stack runs out.
StackOverflow == [j |-> "StackOverflow"]

\* An arm that writes Undefined as null.
SerializeUndefinedAsNull(json_obj, k) == IndexAssign(json_obj, k, JsonNull)

\* The arm `Value::Undefined => {}`.
SerializeUndefined(json_obj, k) == json_obj

RECURSIVE recursive_serialize(_, _, _, _)

\* The body of `match elem`: json_obj after key k, whose value is elem.
SerializeElem(h, json_obj, k, elem, depth) ==
    CASE elem.t = "Undefined" -> SerializeUndefined(json_obj, k)
      [] elem.t = "Null" -> IndexAssign(json_obj, k, JsonNull)
      [] elem.t = "Bool" -> IndexAssign(json_obj, k, JsonBoolean(elem.b))
      [] elem.t = "Number" -> IndexAssign(json_obj, k, JsonNumber(NumberFromF64(elem.f)))
      [] elem.t = "String" -> IndexAssign(json_obj, k, JsonString(elem.s))
      [] elem.t = "Object" ->
            IF ~is_instance_of_function(h, elem.o)
            THEN LET sub_data_json == recursive_serialize(h, elem.o, new_object, depth + 1)
                 IN IF sub_data_json = StackOverflow
                    THEN StackOverflow
                    ELSE IndexAssign(json_obj, k, sub_data_json)
            ELSE json_obj

\* `for k in &obj.get_keys(activation)`, from the i-th key on.
RECURSIVE SerializeKeys(_, _, _, _, _)
SerializeKeys(h, obj, i, json_obj, depth) ==
    IF json_obj = StackOverflow \/ i > Len(get_keys(h, obj))
    THEN json_obj
    ELSE LET k == get_keys(h, obj)[i]
         IN SerializeKeys(h, obj, i + 1,
                          SerializeElem(h, json_obj, k, get(h, obj, k), depth), depth)

recursive_serialize(h, obj, json_obj, depth) ==
    IF depth > StackLimit THEN StackOverflow ELSE SerializeKeys(h, obj, 1, json_obj, depth)

(* ------------------ JsonValue::dump and json::parse ------------------- *)
\* A document string is its sequence of JSON tokens.

Tok(k) == [k |-> k]
StrTok(s) == [k |-> "str", s |-> s]
NumTok(neg, n) == [k |-> "num", neg |-> neg, n |-> n]

\* The generator's write_number: the json crate writes its NaN number as null.
write_number(n) ==
    IF n.category = "NaN"
    THEN <<Tok("null")>>
    ELSE <<NumTok(n.category = "Negative", n.mantissa * Pow10(n.exponent))>>

RECURSIVE dump(_)
RECURSIVE DumpEntries(_, _)
RECURSIVE DumpItems(_, _)

DumpEntries(ents, i) ==
    IF i > Len(ents)
    THEN <<>>
    ELSE (IF i > 1 THEN <<Tok(",")>> ELSE <<>>)
         \o <<StrTok(ents[i][1]), Tok(":")>> \o dump(ents[i][2]) \o DumpEntries(ents, i + 1)

DumpItems(items, i) ==
    IF i > Len(items)
    THEN <<>>
    ELSE (IF i > 1 THEN <<Tok(",")>> ELSE <<>>) \o dump(items[i]) \o DumpItems(items, i + 1)

dump(v) ==
    CASE v.j = "Null" -> <<Tok("null")>>
      [] v.j \in {"Short", "String"} -> <<StrTok(v.s)>>
      [] v.j = "Number" -> write_number(v.n)
      [] v.j = "Boolean" -> <<Tok(IF v.b THEN "true" ELSE "false")>>
      [] v.j = "Object" -> <<Tok("{")>> \o DumpEntries(v.o, 1) \o <<Tok("}")>>
      [] v.j = "Array" -> <<Tok("[")>> \o DumpItems(v.a, 1) \o <<Tok("]")>>

ParseErr == [ok |-> FALSE, v |-> JsonNull, rest |-> <<>>]
ParseOk(v, rest) == [ok |-> TRUE, v |-> v, rest |-> rest]

\* The parser keeps a string of at most 30 bytes inline (JsonValue::Short).
StringValue(s) == IF Len(s) <= 30 THEN JsonShort(s) ELSE JsonString(s)

RECURSIVE ParseValue(_)
RECURSIVE ParseMembers(_, _)
RECURSIVE ParseElements(_, _)

\* After `{` or `,`: "key" : value, then `,` or `}`.
ParseMembers(toks, acc) ==
    IF Len(toks) < 2 \/ toks[1].k # "str" \/ toks[2].k # ":"
    THEN ParseErr
    ELSE LET r == ParseValue(SubSeq(toks, 3, Len(toks)))
         IN IF ~r.ok \/ Len(r.rest) = 0
            THEN ParseErr
            ELSE IF Head(r.rest).k = "}"
            THEN ParseOk(JsonObject(PutProp(acc, toks[1].s, r.v)), Tail(r.rest))
            ELSE IF Head(r.rest).k = ","
            THEN ParseMembers(Tail(r.rest), PutProp(acc, toks[1].s, r.v))
            ELSE ParseErr

\* After `[` or `,`: value, then `,` or `]`.
ParseElements(toks, acc) ==
    LET r == ParseValue(toks)
    IN IF ~r.ok \/ Len(r.rest) = 0
       THEN ParseErr
       ELSE IF Head(r.rest).k = "]"
       THEN ParseOk(JsonArray(Append(acc, r.v)), Tail(r.rest))
       ELSE IF Head(r.rest).k = ","
       THEN ParseElements(Tail(r.rest), Append(acc, r.v))
       ELSE ParseErr

ParseValue(toks) ==
    IF Len(toks) = 0
    THEN ParseErr
    ELSE LET t == Head(toks)
             rest == Tail(toks)
         IN CASE t.k = "null" -> ParseOk(JsonNull, rest)
              [] t.k = "true" -> ParseOk(JsonBoolean(TRUE), rest)
              [] t.k = "false" -> ParseOk(JsonBoolean(FALSE), rest)
              [] t.k = "str" -> ParseOk(StringValue(t.s), rest)
              [] t.k = "num" ->
                    ParseOk(JsonNumber(JNumber(IF t.neg THEN "Negative" ELSE "Positive", t.n, 0)),
                            rest)
              [] t.k = "{" ->
                    IF Len(rest) > 0 /\ Head(rest).k = "}"
                    THEN ParseOk(new_object, Tail(rest))
                    ELSE ParseMembers(rest, <<>>)
              [] t.k = "[" ->
                    IF Len(rest) > 0 /\ Head(rest).k = "]"
                    THEN ParseOk(JsonArray(<<>>), Tail(rest))
                    ELSE ParseElements(rest, <<>>)
              [] OTHER -> ParseErr

\* json::parse(&saved): one value, and nothing after it.
parse(saved) ==
    LET r == ParseValue(saved)
    IN IF r.ok /\ Len(r.rest) = 0 THEN r ELSE ParseErr

(* ------------------ recursive_deserialize (decode) -------------------- *)

BareObject == [kind |-> "object", name |-> "", props |-> <<>>]

\* prototype.create_bare_object(activation, prototype)
create_bare_object(h) == [h EXCEPT ![Alloc(h)] = BareObject]

RECURSIVE recursive_deserialize(_, _, _)

\* An arm that defines the property of an array as Undefined.
DeserializeArrayDefines(h, key, object) == define_value(h, object, key, Undefined)

\* The arm `JsonValue::Array(_) => {}`.
DeserializeArray(h, key, object) == h

\* The body of `match entry.1`: the heap after entry <<key, val>>.
DeserializeEntry(h, key, val, object) ==
    CASE val.j = "Null" -> define_value(h, object, key, Null)
      [] val.j = "Short" -> define_value(h, object, key, String(val.s))
      [] val.j = "String" -> define_value(h, object, key, String(val.s))
      [] val.j = "Number" -> define_value(h, object, key, Number(F64FromNumber(val.n)))
      [] val.j = "Boolean" -> define_value(h, object, key, Bool(val.b))
      [] val.j = "Object" ->
            LET obj == Alloc(h)
            IN define_value(recursive_deserialize(val, create_bare_object(h), obj),
                            object, key, Object(obj))
      [] val.j = "Array" -> DeserializeArray(h, key, object)

\* `for entry in json_obj.entries()`, from the i-th entry on.
RECURSIVE DeserializeEntries(_, _, _, _)
DeserializeEntries(ents, i, h, object) ==
    IF i > Len(ents)
    THEN h
    ELSE DeserializeEntries(ents, i + 1, DeserializeEntry(h, ents[i][1], ents[i][2], object),
                            object)

recursive_deserialize(json_obj, h, object) == DeserializeEntries(entries(json_obj), 1, h, object)

\* Objects a decode of json_obj allocates: one per object-typed entry, nested included.
RECURSIVE ObjectEntries(_)
RECURSIVE ObjectEntriesFrom(_, _)
ObjectEntriesFrom(ents, i) ==
    IF i > Len(ents)
    THEN 0
    ELSE (IF ents[i][2].j = "Object" THEN 1 + ObjectEntries(ents[i][2]) ELSE 0)
         + ObjectEntriesFrom(ents, i + 1)
ObjectEntries(json_obj) == ObjectEntriesFrom(entries(json_obj), 1)

(* ------------------------------ state --------------------------------- *)

VARIABLES
    heap,            \* the AVM1 objects: ObjIds -> object record
    shared_objects,  \* activation.context.shared_objects: name -> handle
    storage,         \* activation.context.storage: key -> document string
    last,            \* the last call: operation, arguments and returned value
    io,              \* the storage calls the last call made, in order
    diag,            \* the avm_warn! messages the last call emitted
    data_json,       \* the document the last flush built
    persisted        \* per name, the data tree as of the last flush that was stored

vars == <<heap, shared_objects, storage, last, io, diag, data_json, persisted>>

Range(f) == {f[x] : x \in DOMAIN f}

\* HashMap::insert / StorageBackend::put_string
MapInsert(m, k, v) == [x \in DOMAIN m \cup {k} |-> IF x = k THEN v ELSE m[x]]
\* StorageBackend::remove_key
MapRemove(m, k) == [x \in DOMAIN m \ {k} |-> m[x]]

EmptyMap == [x \in {} |-> 0]

Call(op, name, nargs, this, hit, ret) ==
    [op |-> op, name |-> name, nargs |-> nargs, this |-> this, hit |-> hit, ret |-> ret]

\* coerce_to_object of a handle's `data` property.
DataOf(h, this) == get(h, this, "data").o

(* ------------------------ the object graph ---------------------------- *)

ObjectRefs(h, i) ==
    {h[i].props[n][2].o : n \in {m \in 1..Len(h[i].props) : h[i].props[m][2].t = "Object"}}

RECURSIVE Reach(_, _)
Reach(h, S) ==
    LET T == S \cup UNION {ObjectRefs(h, i) : i \in S}
    IN IF T = S THEN S ELSE Reach(h, T)

\* The collector: an object no handle of the cache reaches is gone.
Collect(h, roots) == [i \in ObjIds |-> IF i \in Reach(h, roots) THEN h[i] ELSE NoObj]

\* The structure of the graph under obj, without identities and key order:
\* the set of <<key, value>>, a nested object given by its own structure.
RECURSIVE Snapshot(_, _)
SnapValue(h, v) ==
    IF v.t # "Object"
    THEN v
    ELSE IF h[v.o].kind = "function"
    THEN [t |-> "Function"]
    ELSE [t |-> "Object", props |-> Snapshot(h, v.o)]
Snapshot(h, obj) ==
    {<<h[obj].props[n][1], SnapValue(h, h[obj].props[n][2])>> : n \in 1..Len(h[obj].props)}

NoTree == [t |-> "None"]

(* ------------------------------ inputs -------------------------------- *)

\* The values a script stores in a data object, besides objects and functions.
ScalarValues ==
    {Undefined, Null, Bool(TRUE), Number(Finite(7)), Number(NAN), Number(INFINITY), String("s")}

\* Document strings found in the backend that no flush of this model wrote.
Truncated == <<Tok("{")>>
TrailingBrace == <<Tok("{"), StrTok("a"), Tok(":"), NumTok(FALSE, 7), Tok("}"), Tok("}")>>
MalformedDocuments == {Truncated, TrailingBrace}
ArrayDocument ==
    dump(JsonObject(<< <<"a", JsonArray(<<JsonNumber(JNumber("Positive", 7, 0))>>)>>,
                       <<"b", JsonString("s")>> >>))
NestedArrayDocument ==
    dump(JsonObject(<< <<"a", JsonObject(<< <<"a", JsonBoolean(TRUE)>>,
                                            <<"b", JsonArray(<<new_object>>)>> >>)>>,
                       <<"b", JsonNull>> >>))
ForeignDocuments == MalformedDocuments \cup {ArrayDocument, NestedArrayDocument}

UnsupportedOps ==
    {"deleteAll", "getDiskUsage", "getRemote", "getMaxSize", "addListener", "removeListener",
     "close", "connect", "getSize", "send", "setFps", "onStatus", "onSync"}

(* ------------------------------ getLocal ------------------------------ *)

\* A lookup that never finds the handle.
CacheGetAlwaysMiss(name) == 0

\* activation.context.shared_objects.get(&name): the cached handle, 0 for None.
CacheGet(name) == IF name \in DOMAIN shared_objects THEN shared_objects[name] ELSE 0

\* `if args.len() > 1 { avm_warn!(..) }`, reached on a cache miss only.
GetLocalWarning(nargs) ==
    IF nargs > 1
    THEN <<"SharedObject.getLocal() doesn't support localPath or secure yet">>
    ELSE <<>>

\* A construction that leaves the internal name unset.
ConstructSharedObjectUnnamed(h, name) ==
    [h EXCEPT ![Alloc(h)] = [kind |-> "shared", name |-> "", props |-> <<>>]]

\* constructor.construct(activation, &[]) and obj_so.set_name(.., name)
ConstructSharedObject(h, name) ==
    [h EXCEPT ![Alloc(h)] = [kind |-> "shared", name |-> name, props |-> <<>>]]

\* A load that decodes the leading value of a string and ignores what follows it.
LoadDataLenient(h, name, data) ==
    IF name \in DOMAIN storage
    THEN LET json_data == ParseValue(storage[name])
         IN IF json_data.ok THEN recursive_deserialize(json_data.v, h, data) ELSE h
    ELSE h

\* "Load the data object from storage if it existed prior"
LoadData(h, name, data) ==
    IF name \in DOMAIN storage
    THEN LET json_data == parse(storage[name])
         IN IF json_data.ok THEN recursive_deserialize(json_data.v, h, data) ELSE h
    ELSE h

\* Objects a cache miss on name allocates: the handle, its data, the decoded objects.
ObjectsNeeded(name) ==
    2 + (IF name \in DOMAIN storage /\ parse(storage[name]).ok
         THEN ObjectEntries(parse(storage[name]).v)
         ELSE 0)

\* A hit that loads the stored document into the cached handle's data again.
GetLocalHitReloads(name, nargs, so) ==
    /\ FreeSlots(heap) >= ObjectsNeeded(name) - 2
    /\ heap' = LoadData(heap, name, DataOf(heap, so))
    /\ last' = Call("getLocal", name, nargs, 0, TRUE, Object(so))
    /\ io' = <<[call |-> "get_string", key |-> name]>>
    /\ diag' = <<>>
    /\ data_json' = JsonNull
    /\ UNCHANGED <<shared_objects, storage, persisted>>

\* `if let Some(so) = ..shared_objects.get(&name) { return Ok(Value::Object(*so)); }`
GetLocalHit(name, nargs, so) ==
    /\ last' = Call("getLocal", name, nargs, 0, TRUE, Object(so))
    /\ io' = <<>>
    /\ diag' = <<>>
    /\ data_json' = JsonNull
    /\ UNCHANGED <<heap, shared_objects, storage, persisted>>

GetLocal(name, nargs) ==
    LET so == CacheGet(name)
    IN IF so # 0
       THEN GetLocalHit(name, nargs, so)
       ELSE /\ FreeSlots(heap) >= ObjectsNeeded(name)
            /\ LET this == Alloc(heap)
                   h1 == ConstructSharedObject(heap, name)
                   data == Alloc(h1)
                   h2 == create_bare_object(h1)
                   h3 == LoadData(h2, name, data)
               IN /\ heap' = define_value(h3, this, "data", Object(data))
                  /\ shared_objects' = MapInsert(shared_objects, name, this)
                  /\ last' = Call("getLocal", name, nargs, 0, FALSE, Object(this))
            /\ io' = <<[call |-> "get_string", key |-> name]>>
            /\ diag' = GetLocalWarning(nargs)
            /\ data_json' = JsonNull
            /\ UNCHANGED <<storage, persisted>>

\* Err(..): what a call returns when a `?` of its body met an error.
ErrorRaised == [t |-> "Error"]

\* The places of get_local where `?` returns the error of the object model.
GetLocalFailures == {"coerce_to_string", "construct", "create_bare_object"}

\* A get_local that registers the handle before it creates the data object.
GetLocalFailsAfterInsert(name, nargs, at) ==
    /\ at \in GetLocalFailures
    /\ at # "coerce_to_string" => CacheGet(name) = 0
    /\ at = "create_bare_object" => FreeSlots(heap) >= 1
    /\ IF at = "create_bare_object"
       THEN /\ heap' = ConstructSharedObject(heap, name)
            /\ shared_objects' = MapInsert(shared_objects, name, Alloc(heap))
       ELSE UNCHANGED <<heap, shared_objects>>
    /\ last' = Call("getLocal", IF at = "coerce_to_string" THEN "" ELSE name, nargs, 0, FALSE,
                    ErrorRaised)
    /\ io' = <<>>
    /\ diag' = IF at = "coerce_to_string" THEN <<>> ELSE GetLocalWarning(nargs)
    /\ data_json' = JsonNull
    /\ UNCHANGED <<storage, persisted>>

\* get_local returning early with an error:
\*   coerce_to_string(activation)?      before the name is known and looked up;
\*   constructor.construct(..)?         on a cache miss, after the warning;
\*   create_bare_object(..)?            on a cache miss, after the handle was
\*                                      constructed and named.
\* The handle of the last case is referenced by nothing and is collected.
GetLocalFails(name, nargs, at) ==
    /\ at \in GetLocalFailures
    /\ at # "coerce_to_string" => CacheGet(name) = 0
    /\ at = "create_bare_object" => FreeSlots(heap) >= 1
    /\ heap' = IF at = "create_bare_object"
               THEN Collect(ConstructSharedObject(heap, name), Range(shared_objects))
               ELSE heap
    /\ last' = Call("getLocal", IF at = "coerce_to_string" THEN "" ELSE name, nargs, 0, FALSE,
                    ErrorRaised)
    /\ io' = <<>>
    /\ diag' = IF at = "coerce_to_string" THEN <<>> ELSE GetLocalWarning(nargs)
    /\ data_json' = JsonNull
    /\ UNCHANGED <<shared_objects, storage, persisted>>

(* ------------------------------- flush -------------------------------- *)

\* `this.get("data", activation)?` of flush and clear returns the error of the
\* property read: nothing was encoded, deleted, written or removed.
DataReadFails(op, this) ==
    /\ this \in Range(shared_objects)
    /\ last' = Call(op, heap[this].name, 0, this, FALSE, ErrorRaised)
    /\ io' = <<>>
    /\ diag' = <<>>
    /\ data_json' = JsonNull
    /\ UNCHANGED <<heap, shared_objects, storage, persisted>>


\* A write that lands under one key whatever the handle's name.
put_stringOneKey(st, name, value, ok) == IF ok THEN MapInsert(st, "prefs", value) ELSE st

\* storage.put_string(&name, value): the backend reports whether it stored the value.
put_string(st, name, value, ok) == IF ok THEN MapInsert(st, name, value) ELSE st

\* A flush that reports success whatever the backend said.
FlushResultAlwaysTrue(ok) == Bool(TRUE)

\* `Ok(..put_string(..).into())`: what flush returns.
FlushResult(ok) == Bool(ok)

\* A flush that takes the properties out of the data object as it writes them.
FlushDrains(this, ok) ==
    /\ this \in Range(shared_objects)
    /\ LET data == DataOf(heap, this)
           doc == recursive_serialize(heap, data, new_object, 1)
           name == heap[this].name
       IN /\ doc # StackOverflow
          /\ data_json' = doc
          /\ io' = <<[call |-> "put_string", key |-> name, value |-> dump(doc), ok |-> ok]>>
          /\ storage' = put_string(storage, name, dump(doc), ok)
          /\ last' = Call("flush", name, 0, this, FALSE, FlushResult(ok))
          /\ heap' = Collect([heap EXCEPT ![data].props = <<>>], Range(shared_objects))
    /\ diag' = <<>>
    /\ UNCHANGED <<shared_objects, persisted>>

Flush(this, ok) ==
    /\ this \in Range(shared_objects)
    /\ LET data == DataOf(heap, this)
           doc == recursive_serialize(heap, data, new_object, 1)
           name == heap[this].name
       IN /\ doc # StackOverflow
          /\ data_json' = doc
          /\ io' = <<[call |-> "put_string", key |-> name, value |-> dump(doc), ok |-> ok]>>
          /\ storage' = put_string(storage, name, dump(doc), ok)
          /\ last' = Call("flush", name, 0, this, FALSE, FlushResult(ok))
          /\ persisted' = IF ok
                          THEN [persisted EXCEPT ![name] = [t |-> "Tree", props |-> Snapshot(heap, data)]]
                          ELSE persisted
    /\ diag' = <<>>
    /\ UNCHANGED <<heap, shared_objects>>

\* What a caller of flush sees when recursive_serialize exhausts the native
\* stack: the call never returns, the player process is gone.
ProcessAbort == [t |-> "Abort"]

\* flush of a data graph with a cycle: recursive_serialize keeps no record of
\* the objects it entered and follows the cycle until the stack runs out;
\* put_string is never reached.  The cache and the objects die with the process.
FlushOverflow(this) ==
    /\ this \in Range(shared_objects)
    /\ recursive_serialize(heap, DataOf(heap, this), new_object, 1) = StackOverflow
    /\ last' = Call("flush", heap[this].name, 0, this, FALSE, ProcessAbort)
    /\ heap' = [i \in ObjIds |-> NoObj]
    /\ shared_objects' = EmptyMap
    /\ io' = <<>>
    /\ diag' = <<>>
    /\ data_json' = StackOverflow
    /\ UNCHANGED <<storage, persisted>>

(* ------------------------------- clear -------------------------------- *)

\* `for k in &data.get_keys(activation) { data.delete(activation, k); }`
RECURSIVE DeleteKeys(_, _, _)
DeleteKeys(props, keys, i) ==
    IF i > Len(keys) THEN props ELSE DeleteKeys(DelProp(props, keys[i]), keys, i + 1)

\* A clear that leaves the backend entry.
remove_keyKeeps(st, name) == st

\* activation.context.storage.remove_key(&name)
remove_key(st, name) == MapRemove(st, name)

\* A clear that also drops the handle from the cache.
ClearEvicts(this) ==
    /\ this \in Range(shared_objects)
    /\ LET name == heap[this].name
       IN /\ shared_objects' = MapRemove(shared_objects, name)
          /\ heap' = Collect(heap, Range(shared_objects) \ {this})
          /\ storage' = remove_key(storage, name)
          /\ io' = <<[call |-> "remove_key", key |-> name]>>
          /\ last' = Call("clear", name, 0, this, FALSE, Undefined)
          /\ persisted' = [persisted EXCEPT ![name] = NoTree]
    /\ diag' = <<>>
    /\ data_json' = JsonNull

Clear(this) ==
    /\ this \in Range(shared_objects)
    /\ LET data == DataOf(heap, this)
           name == heap[this].name
           h1 == [heap EXCEPT ![data].props = DeleteKeys(@, get_keys(heap, data), 1)]
       IN /\ heap' = Collect(h1, Range(shared_objects))
          /\ storage' = remove_key(storage, name)
          /\ io' = <<[call |-> "remove_key", key |-> name]>>
          /\ last' = Call("clear", name, 0, this, FALSE, Undefined)
          /\ persisted' = [persisted EXCEPT ![name] = NoTree]
    /\ diag' = <<>>
    /\ data_json' = JsonNull
    /\ UNCHANGED shared_objects

(* ----------------------- unimplemented methods ------------------------ *)

\* A method that says nothing.
NotImplementedSilent(op) == <<>>

\* avm_warn!(activation, "SharedObject.<op>() not implemented")
NotImplementedWarning(op) == <<"SharedObject." \o op \o "() not implemented">>

\* The body the thirteen methods share: the warning, then Ok(Value::Undefined).
NotImplemented(op) ==
    /\ diag' = NotImplementedWarning(op)
    /\ last' = Call(op, "", 0, 0, FALSE, Undefined)
    /\ io' = <<>>
    /\ data_json' = JsonNull
    /\ UNCHANGED <<heap, shared_objects, storage, persisted>>

(* --------------------- the script and the session --------------------- *)

\* The objects a script reaches through the handles: the data objects and
\* the objects nested in them (the heap holds no unreachable object).
DataObjects(h) == {i \in ObjIds : h[i].kind = "object"}

RECURSIVE PropCountFrom(_, _)
PropCountFrom(h, i) ==
    IF i > MaxObjs
    THEN 0
    ELSE (IF h[i].kind = "object" THEN Len(h[i].props) ELSE 0) + PropCountFrom(h, i + 1)
PropCount(h) == PropCountFrom(h, 1)

\* The script assigns `o.k = v`; the object the property held before may
\* become unreachable.
ScriptAssign(h, o, k, v) ==
    /\ o \in DataObjects(h)
    /\ LET h1 == define_value(h, o, k, v)
           h2 == IF get(h, o, k).t = "Object" THEN Collect(h1, Range(shared_objects)) ELSE h1
       IN /\ PropCount(h2) <= MaxProps
          /\ heap' = h2
    /\ last' = Call("script", "", 0, 0, FALSE, Undefined)
    /\ io' = <<>>
    /\ diag' = <<>>
    /\ data_json' = JsonNull
    /\ UNCHANGED <<shared_objects, storage, persisted>>

\* The script assigns a scalar: `so.data.k = v`.
ScriptSet(o, k, v) == ScriptAssign(heap, o, k, v)

\* The script assigns a new empty object (`{}`) or a new function.
ScriptSetNew(o, k, kind) ==
    /\ o \in DataObjects(heap)
    /\ FreeSlots(heap) >= 1
    /\ LET new == Alloc(heap)
       IN ScriptAssign([heap EXCEPT ![new] = [kind |-> kind, name |-> "", props |-> <<>>]],
                       o, k, Object(new))

\* The script assigns an object it already reaches: `o.k = target`.
ScriptLink(o, k, target) ==
    /\ target \in DataObjects(heap)
    /\ ScriptAssign(heap, o, k, Object(target))

\* The player ends and starts again: the cache and the objects are gone, the
\* backend stays.
NewSession ==
    /\ heap' = [i \in ObjIds |-> NoObj]
    /\ shared_objects' = EmptyMap
    /\ last' = Call("newSession", "", 0, 0, FALSE, Undefined)
    /\ io' = <<>>
    /\ diag' = <<>>
    /\ data_json' = JsonNull
    /\ UNCHANGED <<storage, persisted>>

(* --------------------------- specification ---------------------------- *)

InitWith(documents) ==
    /\ heap = [i \in ObjIds |-> NoObj]
    /\ shared_objects = EmptyMap
    /\ storage \in {EmptyMap} \cup {MapInsert(EmptyMap, "prefs", d) : d \in documents}
    /\ last = Call("init", "", 0, 0, FALSE, Undefined)
    /\ io = <<>>
    /\ diag = <<>>
    /\ data_json = JsonNull
    /\ persisted = [n \in Names |-> NoTree]

\* The lifecycle: two names, every operation, scripts that store a number or
\* a function under one key.
Init == InitWith(MalformedDocuments)

Next ==
    \/ \E name \in Names, nargs \in {1, 3} : GetLocal(name, nargs)
    \/ \E this \in ObjIds, ok \in BOOLEAN : Flush(this, ok)
    \/ \E this \in ObjIds : Clear(this)
    \/ \E op \in UnsupportedOps : NotImplemented(op)
    \/ \E o \in ObjIds : ScriptSet(o, "volume", Number(Finite(7)))
    \/ \E o \in ObjIds : ScriptSetNew(o, "volume", "function")
    \/ NewSession

Spec == Init /\ [][Next]_vars

\* The codec: one name, scripts that build every tree of the bounds while
\* nothing is stored under the name, then flush, a new session and getLocal.
InitCodec == InitWith(ForeignDocuments)

\* A script of the codec runs adds property k to o while nothing is stored.
Building(o, k) == "prefs" \notin DOMAIN storage /\ ~HasKey(heap[o].props, k)

NextCodec ==
    \/ GetLocal("prefs", 1)
    \/ \E this \in ObjIds : Flush(this, TRUE)
    \/ \E this \in ObjIds : Clear(this)
    \/ \E o \in ObjIds, k \in Keys, v \in ScalarValues :
          Building(o, k) /\ ScriptSet(o, k, v)
    \/ \E o \in ObjIds, k \in Keys, kind \in {"object", "function"} :
          Building(o, k) /\ ScriptSetNew(o, k, kind)
    \/ NewSession

SpecCodec == InitCodec /\ [][NextCodec]_vars

\* The host at large, over one name: calls of the object model that fail, and
\* scripts that link the objects they reach into cycles.
NextFaults ==
    \/ \E nargs \in {1, 3} : GetLocal("prefs", nargs)
    \/ \E nargs \in {1, 3}, at \in GetLocalFailures : GetLocalFails("prefs", nargs, at)
    \/ \E this \in ObjIds, ok \in BOOLEAN : Flush(this, ok)
    \/ \E this \in ObjIds : FlushOverflow(this)
    \/ \E this \in ObjIds, op \in {"flush", "clear"} : DataReadFails(op, this)
    \/ \E this \in ObjIds : Clear(this)
    \/ \E o \in ObjIds : ScriptSet(o, "volume", Number(Finite(7)))
    \/ \E o \in ObjIds, target \in ObjIds : ScriptLink(o, "b", target)
    \/ NewSession

SpecFaults == Init /\ [][NextFaults]_vars

(* ------------------------------ claims -------------------------------- *)

Handles == Range(shared_objects)

\* A tree of Null, Bool, Number, String and nested objects of these only.
RECURSIVE PlainTree(_)
PlainTree(tree) ==
    \A p \in tree :
        \/ p[2].t \in {"Null", "Bool", "Number", "String"}
        \/ p[2].t = "Object" /\ PlainTree(p[2].props)

\* decode(doc) into a fresh empty object, as the structure it builds.
Decoded(doc) ==
    LET fresh == create_bare_object([i \in ObjIds |-> NoObj])
    IN Snapshot(recursive_deserialize(doc, fresh, 1), 1)

\* C1: within one session every getLocal(n) returns the handle the cache holds
\* for n, and no step of the session replaces or removes a cache entry, so
\* every getLocal(n) returns the handle of the first one.
C1_SameHandle ==
    [][last'.op # "newSession" =>
          /\ \A n \in DOMAIN shared_objects :
                n \in DOMAIN shared_objects' /\ shared_objects'[n] = shared_objects[n]
          /\ last'.op = "getLocal" =>
                /\ last'.name \in DOMAIN shared_objects'
                /\ last'.ret = Object(shared_objects'[last'.name])]_vars

\* getLocal("x") hits the cache after a flush stored x's data and while the
\* handle of another name is open.
C1_Witness ==
    /\ last.op = "getLocal" /\ last.hit /\ last.name = "x"
    /\ "x" \in DOMAIN storage
    /\ "prefs" \in DOMAIN shared_objects

\* C2: for every handle whose data is a plain tree, decoding the document
\* that encoding the data produces, into a fresh object, gives a tree equal
\* to the data.
C2_RoundTrip ==
    \A this \in Handles :
        LET data == DataOf(heap, this)
        IN PlainTree(Snapshot(heap, data)) =>
              Decoded(recursive_serialize(heap, data, new_object, 1)) = Snapshot(heap, data)

\* C3: a getLocal that misses the cache for a name whose plain data tree a
\* flush stored (and no later flush or clear touched) returns a handle whose
\* data equals that tree.
C3_Persists ==
    (/\ last.op = "getLocal" /\ ~last.hit
     /\ persisted[last.name].t = "Tree"
     /\ PlainTree(persisted[last.name].props))
    => Snapshot(heap, DataOf(heap, last.ret.o)) = persisted[last.name].props

\* The round trips hold of the trees without NaN and infinite numbers.
RECURSIVE FiniteTree(_)
FiniteTree(tree) ==
    \A p \in tree :
        /\ p[2].t = "Number" => p[2].f.cat \notin {"Nan", "Infinite"}
        /\ p[2].t = "Object" => FiniteTree(p[2].props)

RoundTripOfFinite ==
    \A this \in Handles :
        LET tree == Snapshot(heap, DataOf(heap, this))
        IN PlainTree(tree) /\ FiniteTree(tree) =>
              Decoded(recursive_serialize(heap, DataOf(heap, this), new_object, 1)) = tree

PersistsFinite ==
    (/\ last.op = "getLocal" /\ ~last.hit
     /\ persisted[last.name].t = "Tree"
     /\ PlainTree(persisted[last.name].props)
     /\ FiniteTree(persisted[last.name].props))
    => Snapshot(heap, DataOf(heap, last.ret.o)) = persisted[last.name].props

EmptyDocument == <<Tok("{"), Tok("}")>>

\* C4: clear leaves the handle's data object without properties and the
\* backend without an entry for the handle's name; a flush of the handle right
\* after it finds no entry and writes the empty document {} under that name.
C4_Clear ==
    [][/\ last'.op = "clear" =>
             /\ heap'[DataOf(heap', last'.this)].props = <<>>
             /\ heap'[last'.this].name \notin DOMAIN storage'
       /\ (last.op = "clear" /\ last'.op = "flush" /\ last'.this = last.this) =>
             /\ heap[last.this].name \notin DOMAIN storage
             /\ io' = <<[call |-> "put_string", key |-> heap[last.this].name,
                         value |-> EmptyDocument, ok |-> last'.ret.b]>>
             /\ last'.ret.b => storage'[heap[last.this].name] = EmptyDocument]_vars

\* clear has run on "prefs": no property, no backend entry, one remove_key.
C4_Witness ==
    /\ last.op = "clear"
    /\ heap[DataOf(heap, last.this)].props = <<>>
    /\ io = <<[call |-> "remove_key", key |-> "prefs"]>>
    /\ "prefs" \notin DOMAIN storage

Entry(doc, k) == doc.o[CHOOSE i \in 1..Len(doc.o) : doc.o[i][1] = k][2]

\* The document of obj has no key of a function-valued property, at any depth,
\* and has the key of every other property that is not Undefined.
RECURSIVE CallablesOmitted(_, _, _)
CallablesOmitted(h, obj, doc) ==
    \A n \in 1..Len(h[obj].props) :
        LET k == h[obj].props[n][1]
            v == h[obj].props[n][2]
        IN CASE v.t = "Undefined" -> TRUE
             [] v.t = "Object" ->
                   IF h[v.o].kind = "function"
                   THEN ~HasKey(doc.o, k)
                   ELSE /\ HasKey(doc.o, k)
                        /\ Entry(doc, k).j = "Object"
                        /\ CallablesOmitted(h, v.o, Entry(doc, k))
             [] OTHER -> HasKey(doc.o, k) /\ Entry(doc, k).j \notin {"Object", "Array"}

\* C5: flush leaves the live objects as they are, and the document it builds
\* has no key for a property holding a function, at any depth, while the
\* other properties of the same object are written.
C5_SkipCallable ==
    [][last'.op = "flush" =>
          /\ heap' = heap
          /\ CallablesOmitted(heap', DataOf(heap', last'.this), data_json')]_vars

\* A flush of data whose nested object holds a function next to a scalar.
C5_Witness ==
    /\ last.op = "flush"
    /\ \E o \in DataObjects(heap) \ {DataOf(heap, last.this)} :
          /\ \E n \in 1..Len(heap[o].props) :
                heap[o].props[n][2].t = "Object"
                /\ heap[heap[o].props[n][2].o].kind = "function"
          /\ \E n \in 1..Len(heap[o].props) :
                heap[o].props[n][2].t \in {"Null", "Bool", "Number", "String"}

\* The document of obj has no key of a property holding Undefined, at any
\* depth, and has the key of every other property that is not a function.
RECURSIVE UndefinedOmitted(_, _, _)
UndefinedOmitted(h, obj, doc) ==
    \A n \in 1..Len(h[obj].props) :
        LET k == h[obj].props[n][1]
            v == h[obj].props[n][2]
        IN CASE v.t = "Undefined" -> ~HasKey(doc.o, k)
             [] v.t = "Object" ->
                   \/ h[v.o].kind = "function"
                   \/ /\ HasKey(doc.o, k)
                      /\ Entry(doc, k).j = "Object"
                      /\ UndefinedOmitted(h, v.o, Entry(doc, k))
             [] OTHER -> HasKey(doc.o, k)

\* C6: the document a flush builds has no key for a property holding
\* Undefined, at any depth, while the other properties of the same object are
\* written.
C6_SkipUndefined ==
    last.op = "flush" => UndefinedOmitted(heap, DataOf(heap, last.this), data_json)

\* A flush of data whose nested object holds Undefined next to a scalar.
C6_Witness ==
    /\ last.op = "flush"
    /\ \E o \in DataObjects(heap) \ {DataOf(heap, last.this)} :
          /\ \E n \in 1..Len(heap[o].props) : heap[o].props[n][2].t = "Undefined"
          /\ \E n \in 1..Len(heap[o].props) :
                heap[o].props[n][2].t \in {"Null", "Bool", "Number", "String"}

\* C7: a flush makes one backend call, a put_string under the handle's name,
\* and returns the flag the backend gave; when the write failed, the objects
\* and the cache are as before.
C7_FlushReportsWrite ==
    [][last'.op = "flush" =>
          /\ Len(io') = 1
          /\ io'[1].call = "put_string"
          /\ io'[1].key = heap[last'.this].name
          /\ last'.ret = Bool(io'[1].ok)
          /\ ~io'[1].ok => heap' = heap /\ shared_objects' = shared_objects]_vars

\* A flush whose write the backend refused.
C7_Witness ==
    /\ last.op = "flush"
    /\ last.ret = Bool(FALSE)
    /\ io[1].call = "put_string" /\ ~io[1].ok

\* C8: a getLocal that misses the cache for a name whose stored string does not
\* parse returns a new handle with an empty data object, registers it in the
\* cache under the name and leaves the backend as it is.
C8_Malformed ==
    [][(/\ last'.op = "getLocal" /\ ~last'.hit
        /\ last'.name \in DOMAIN storage
        /\ storage[last'.name] \in MalformedDocuments) =>
          /\ last'.ret.t = "Object"
          /\ heap[last'.ret.o].kind = "free"
          /\ heap'[last'.ret.o].kind = "shared"
          /\ heap'[DataOf(heap', last'.ret.o)].props = <<>>
          /\ shared_objects' = MapInsert(shared_objects, last'.name, last'.ret.o)
          /\ storage' = storage]_vars

\* getLocal("prefs") has opened a handle over an entry that does not parse.
C8_Witness ==
    /\ last.op = "getLocal" /\ ~last.hit /\ last.name = "prefs"
    /\ "prefs" \in DOMAIN storage
    /\ storage["prefs"] = TrailingBrace
    /\ shared_objects["prefs"] = last.ret.o

\* What a document holds for decode: its entries of a supported type, a
\* nested object by its own such entries; an array-typed entry is not one.
RECURSIVE DocTree(_)
DocValue(v) ==
    CASE v.j = "Null" -> Null
      [] v.j \in {"Short", "String"} -> String(v.s)
      [] v.j = "Number" -> Number(F64FromNumber(v.n))
      [] v.j = "Boolean" -> Bool(v.b)
      [] v.j = "Object" -> [t |-> "Object", props |-> DocTree(v)]
DocTree(doc) ==
    {<<doc.o[i][1], DocValue(doc.o[i][2])>> :
        i \in {n \in 1..Len(doc.o) : doc.o[n][2].j # "Array"}}

\* C9: the data a getLocal decodes from a stored document has no property for
\* an array-typed entry, at any depth, and has every entry of a supported type.
C9_ArraySkipped ==
    (/\ last.op = "getLocal" /\ ~last.hit
     /\ last.name \in DOMAIN storage
     /\ parse(storage[last.name]).ok
     /\ parse(storage[last.name]).v.j = "Object")
    => Snapshot(heap, DataOf(heap, last.ret.o)) = DocTree(parse(storage[last.name]).v)

\* getLocal has decoded a document with an array after a sibling in a nested
\* object, and a sibling after that object.
C9_Witness ==
    /\ last.op = "getLocal" /\ ~last.hit
    /\ "prefs" \in DOMAIN storage
    /\ storage["prefs"] = NestedArrayDocument
    /\ Snapshot(heap, DataOf(heap, last.ret.o)) =
          {<<"a", [t |-> "Object", props |-> {<<"a", Bool(TRUE)>>}]>>, <<"b", Null>>}

\* C10: every getLocal with more than one argument emits the diagnostic, on a
\* cache hit as on a miss, and on a hit returns the cached handle.
C10_WarnsOnEveryCall ==
    (last.op = "getLocal" /\ last.nargs > 1) =>
        /\ diag = GetLocalWarning(last.nargs)
        /\ last.ret = Object(shared_objects[last.name])

\* The data graph of handle `this` holds an object reachable from itself.
Cyclic(h, this) ==
    \E o \in Reach(h, {DataOf(h, this)}) : o \in Reach(h, ObjectRefs(h, o))

\* C11: a flush of a handle whose data graph holds an object reachable from
\* itself finishes: it returns the flag of its write, as any other flush.
C11_CyclicFlushFinishes ==
    [][(/\ last'.op = "flush"
        /\ last'.this \in Range(shared_objects)
        /\ Cyclic(heap, last'.this)) => last'.ret.t = "Bool"]_vars

\* C12: each of the thirteen unsupported operations emits its diagnostic,
\* returns Undefined, makes no backend call and leaves the cache, the objects
\* and the backend as they were.
C12_Unsupported ==
    [][last'.op \in UnsupportedOps =>
          /\ diag' = <<"SharedObject." \o last'.op \o "() not implemented">>
          /\ last'.ret = Undefined
          /\ io' = <<>>
          /\ heap' = heap
          /\ shared_objects' = shared_objects
          /\ storage' = storage]_vars

\* getSize was called while a handle with data is cached and the backend
\* holds an entry.
C12_Witness ==
    /\ last.op = "getSize"
    /\ diag = <<"SharedObject.getSize() not implemented">>
    /\ \E this \in Handles : heap[DataOf(heap, this)].props # <<>>
    /\ DOMAIN storage # {}

\* C13: getLocal, flush and clear raise no failure to their caller: getLocal
\* returns a handle, clear returns Undefined, and flush returns the flag of
\* its write, false being the only failure a caller sees.
C13_NoFailureThrown ==
    /\ last.op = "getLocal" => last.ret.t = "Object"
    /\ last.op = "flush" => last.ret.t = "Bool"
    /\ last.op = "clear" => last.ret = Undefined

\* C14: clear leaves the cache as it is, and a getLocal of the handle's name
\* right after it returns that handle, with an empty data object.
C14_ClearKeepsCache ==
    [][/\ last'.op = "clear" => shared_objects' = shared_objects
       /\ (last.op = "clear" /\ last'.op = "getLocal" /\ last'.name = last.name) =>
             /\ last'.hit
             /\ last'.ret = Object(last.this)
             /\ heap'[DataOf(heap', last.this)].props = <<>>]_vars

\* clear has emptied the handle of "x", which held data, while both names are
\* cached; the handle is still the one the cache holds for "x".
C14_Witness ==
    /\ last.op = "clear" /\ last.name = "x"
    /\ DOMAIN shared_objects = {"prefs", "x"}
    /\ shared_objects["x"] = last.this
    /\ heap[DataOf(heap, last.this)].props = <<>>
    /\ heap[DataOf(heap, shared_objects["prefs"])].props # <<>>

\* C15: the backend is read only by a getLocal that misses the cache, for
\* the name it opens; a getLocal that hits makes no backend call and changes
\* neither the objects nor the backend.
C15_HydratesOnce ==
    [][/\ (\E i \in 1..Len(io') : io'[i].call = "get_string") =>
             /\ last'.op = "getLocal" /\ ~last'.hit
             /\ last'.name \notin DOMAIN shared_objects
             /\ io' = <<[call |-> "get_string", key |-> last'.name]>>
       /\ (last'.op = "getLocal" /\ last'.name \in DOMAIN shared_objects) =>
             /\ io' = <<>>
             /\ heap' = heap
             /\ storage' = storage
             /\ last'.ret = Object(shared_objects[last'.name])]_vars

\* getLocal("prefs") hit the cache while the handle's data holds a property
\* no flush stored and the backend holds a different (malformed) entry.
C15_Witness ==
    /\ last.op = "getLocal" /\ last.hit /\ last.name = "prefs"
    /\ heap[DataOf(heap, last.ret.o)].props # <<>>
    /\ "prefs" \in DOMAIN storage
    /\ storage["prefs"] \in MalformedDocuments

\* The keys of obj that encode writes, in the order get_keys enumerates them.
EmittedKeys(h, obj) ==
    SelectSeq(get_keys(h, obj),
              LAMBDA k : /\ get(h, obj, k).t # "Undefined"
                         /\ get(h, obj, k).t = "Object" => h[get(h, obj, k).o].kind # "function")

\* The keys of doc are the emitted keys of obj in that order, at every level.
RECURSIVE KeyOrderKept(_, _, _)
KeyOrderKept(h, obj, doc) ==
    /\ doc.j = "Object"
    /\ [i \in 1..Len(doc.o) |-> doc.o[i][1]] = EmittedKeys(h, obj)
    /\ \A i \in 1..Len(doc.o) :
          doc.o[i][2].j = "Object" =>
             /\ get(h, obj, doc.o[i][1]).t = "Object"
             /\ KeyOrderKept(h, get(h, obj, doc.o[i][1]).o, doc.o[i][2])

\* C16: the document a flush builds, and the string it hands to the backend,
\* list at every nesting level the keys that are not skipped in the order in
\* which get_keys enumerates the object's keys.
C16_KeyOrder ==
    last.op = "flush" =>
        /\ KeyOrderKept(heap, DataOf(heap, last.this), data_json)
        /\ KeyOrderKept(heap, DataOf(heap, last.this), parse(io[1].value).v)

\* A flush of data whose nested object enumerates "b" before "a", both written.
C16_Witness ==
    /\ last.op = "flush"
    /\ \E o \in DataObjects(heap) \ {DataOf(heap, last.this)} :
          /\ get_keys(heap, o) = <<"b", "a">>
          /\ EmittedKeys(heap, o) = <<"b", "a">>

\* The backend entries of the names other than name are the same in st1 and st2.
OtherEntriesKept(st1, st2, name) ==
    \A m \in Names \ {name} :
        /\ m \in DOMAIN st1 <=> m \in DOMAIN st2
        /\ m \in DOMAIN st1 => st2[m] = st1[m]

\* The handles cached under the names other than name, and their data, are
\* the same in h1 and h2.
OtherHandlesKept(h1, h2, name) ==
    \A m \in DOMAIN shared_objects \ {name} :
        LET so == shared_objects[m]
        IN /\ h2[so] = h1[so]
           /\ h2[DataOf(h1, so)] = h1[DataOf(h1, so)]
           /\ Snapshot(h2, DataOf(h2, so)) = Snapshot(h1, DataOf(h1, so))

\* C17: flush calls the backend for the handle's name only and changes no
\* entry of another name; clear does the same and changes neither the handle
\* nor the data cached under another name; getLocal reads only, and leaves the
\* backend as it is.
C17_Isolation ==
    [][/\ last'.op \in {"flush", "clear"} =>
             /\ \A i \in 1..Len(io') : io'[i].key = heap[last'.this].name
             /\ OtherEntriesKept(storage, storage', heap[last'.this].name)
             /\ OtherHandlesKept(heap, heap', heap[last'.this].name)
             /\ shared_objects' = shared_objects
       /\ last'.op = "getLocal" =>
             /\ storage' = storage
             /\ \A i \in 1..Len(io') : io'[i].call = "get_string" /\ io'[i].key = last'.name
             /\ OtherHandlesKept(heap, heap', last'.name)]_vars

\* A flush of "x" was stored while the backend holds an entry for "prefs" and
\* the handle of "prefs" is cached with data.
C17_Witness ==
    /\ last.op = "flush" /\ last.name = "x" /\ last.ret = Bool(TRUE)
    /\ "prefs" \in DOMAIN storage
    /\ "prefs" \in DOMAIN shared_objects
    /\ heap[DataOf(heap, shared_objects["prefs"])].props # <<>>

\* C18: every cache entry binds a name to a live handle whose internal name
\* is that name, and no handle is bound to two names.
C18_CacheConsistent ==
    /\ \A n \in DOMAIN shared_objects :
          /\ heap[shared_objects[n]].kind = "shared"
          /\ heap[shared_objects[n]].name = n
    /\ \A n, m \in DOMAIN shared_objects : n # m => shared_objects[n] # shared_objects[m]

\* Both names are cached, "x" opened before "prefs", after a clear.
C18_Witness ==
    /\ DOMAIN shared_objects = {"prefs", "x"}
    /\ shared_objects["x"] < shared_objects["prefs"]
    /\ last.op = "clear"

\* C19: a getLocal that returns an error leaves the cache, the objects and the
\* backend as they were and makes no backend call; the next getLocal of the
\* same name that returns a handle is a cache miss that reads the backend.
C19_OpenAllOrNothing ==
    [][/\ (last'.op = "getLocal" /\ last'.ret = ErrorRaised) =>
             /\ shared_objects' = shared_objects
             /\ heap' = heap
             /\ storage' = storage
             /\ io' = <<>>
       /\ (/\ last.op = "getLocal" /\ last.ret = ErrorRaised /\ last.name # ""
           /\ last'.op = "getLocal" /\ last'.name = last.name /\ last'.ret.t = "Object") =>
             /\ ~last'.hit
             /\ io' = <<[call |-> "get_string", key |-> last'.name]>>
             /\ shared_objects' = MapInsert(shared_objects, last'.name, last'.ret.o)]_vars

\* getLocal("prefs", "/", true) failed on a cache miss after its warning,
\* while the backend holds an entry for "prefs" and nothing is cached.
C19_Witness ==
    /\ last.op = "getLocal" /\ last.name = "prefs" /\ last.ret = ErrorRaised
    /\ diag = GetLocalWarning(3)
    /\ shared_objects = EmptyMap
    /\ "prefs" \in DOMAIN storage

\* C20: a flush changes neither the objects nor the cache; the string a stored
\* flush leaves in the backend is the encoding of the data as it is after the
\* flush, so a second stored flush of the handle, with nothing changed in
\* between, leaves the backend as the first one did.
C20_FlushIdempotent ==
    [][/\ last'.op = "flush" =>
             /\ heap' = heap
             /\ shared_objects' = shared_objects
             /\ last'.ret = Bool(TRUE) =>
                   storage'[last'.name] =
                      dump(recursive_serialize(heap', DataOf(heap', last'.this), new_object, 1))
       /\ (/\ last.op = "flush" /\ last.ret = Bool(TRUE)
           /\ last'.op = "flush" /\ last'.this = last.this /\ last'.ret = Bool(TRUE)) =>
             storage' = storage]_vars

\* A stored flush of data holding a NaN number beside a nested object.
C20_Witness ==
    /\ last.op = "flush" /\ last.ret = Bool(TRUE)
    /\ storage[last.name] = dump(data_json)
    /\ LET data == DataOf(heap, last.this)
       IN /\ \E k \in Keys : get(heap, data, k) = Number(NAN)
          /\ \E k \in Keys : /\ get(heap, data, k).t = "Object"
                              /\ heap[get(heap, data, k).o].props # <<>>

====
